---- MODULE Spec2Model ----
(***************************************************************************)
(* SecretDice (contracts/SecretDice.sol): a two-player dice game whose     *)
(* rolls are encrypted values.  The model is the contract's storage, its   *)
(* ether balance and the outcome of the last external call; every external *)
(* function is one action, a revert being a step that changes nothing but  *)
(* the recorded outcome.  Amounts are in gwei (0.0001 ether = 100000).     *)
(***************************************************************************)
EXTENDS Integers, FiniteSets, Sequences, TLC

\* ---- bounds of the model ----
MaxGames == 2
NumAddresses == 2
RandBound == 2
MaxRequestId == 1
MaxCleartext == 1

\* ---- program constants ----
ENTRY_FEE == 100000
REWARD_AMOUNT == ENTRY_FEE * 2

ZeroAddress == 0
Addresses == 1..NumAddresses
GameIds == 0..(MaxGames - 1)
\* ids a caller may pass: every allocated id and one that is never allocated
GameIdArgs == 0..MaxGames
RequestIds == 0..MaxRequestId
Slots == {0, 1}
\* values of FHE.randEuint32() that the model draws
RandValues == 0..(RandBound - 1)
\* uint32 cleartexts a callback may carry
Cleartexts == 0..MaxCleartext
\* msg.value of a joinGame call
Payments == {ENTRY_FEE - 1, ENTRY_FEE}

GameStatus == {"WaitingForPlayers", "WaitingForRolls", "AwaitingReveal", "Completed"}

NoError == "none"

VARIABLES
    nextGameId,       \* uint256 public nextGameId
    games,            \* mapping(uint256 => Game) games
    requestToGame,    \* mapping(uint256 => uint256) requestToGame (0: no entry, else game id + 1)
    claimLock,        \* bool _claimLock
    balance,          \* ether held by the contract
    lastCall,         \* the last external call: its arguments and its outcome
    revealDelivered   \* games whose reveal the decryption service has delivered

vars == <<nextGameId, games, requestToGame, claimLock, balance, lastCall, revealDelivered>>
storage == <<nextGameId, games, requestToGame, claimLock, balance>>

\* The zero value of struct Game.  An encrypted roll is modelled by the value
\* it encrypts; 0 is the uninitialised handle.
EmptyGame ==
    [creator |-> ZeroAddress,
     players |-> [i \in Slots |-> ZeroAddress],
     hasRolled |-> [i \in Slots |-> FALSE],
     encryptedRolls |-> [i \in Slots |-> 0],
     revealedRolls |-> [i \in Slots |-> 0],
     status |-> "WaitingForPlayers",
     winner |-> ZeroAddress,
     rewardClaimed |-> FALSE,
     drawRefundClaimed |-> [i \in Slots |-> FALSE],
     decryptionPending |-> FALSE,
     pendingRequestId |-> 0]

\* struct GameView as getGame fills it from a game record
GameView(game) ==
    [status |-> game.status,
     creator |-> game.creator,
     playerOne |-> game.players[0],
     playerTwo |-> game.players[1],
     playerOneRolled |-> game.hasRolled[0],
     playerTwoRolled |-> game.hasRolled[1],
     playerOneRevealed |-> game.revealedRolls[0],
     playerTwoRevealed |-> game.revealedRolls[1],
     winner |-> game.winner,
     rewardAlreadyClaimed |-> game.rewardClaimed,
     playerOneDrawRefunded |-> game.drawRefundClaimed[0],
     playerTwoDrawRefunded |-> game.drawRefundClaimed[1],
     revealPending |-> game.decryptionPending]

\* An external call before its outcome is known.  result is the integer a view
\* returns, viewData the struct getGame returns; both are zero for other calls.
Call(op, sender, id, value, cleartexts) ==
    [op |-> op, sender |-> sender, id |-> id, value |-> value, cleartexts |-> cleartexts,
     accepts |-> TRUE, err |-> NoError, paid |-> 0,
     result |-> 0, viewData |-> GameView(EmptyGame)]

NoCall == Call("deploy", ZeroAddress, 0, 0, <<0, 0>>)

Init ==
    /\ nextGameId = 0
    /\ games = [g \in GameIds |-> EmptyGame]
    /\ requestToGame = [r \in RequestIds |-> 0]
    /\ claimLock = FALSE
    /\ balance = 0
    /\ lastCall = NoCall
    /\ revealDelivered = {}

\* A revert: the call's effects are rolled back, its payment is returned.
Revert(call, error) ==
    /\ lastCall' = [call EXCEPT !.err = error]
    /\ UNCHANGED storage

\* modifier gameExists
gameExists(gameId) == gameId < nextGameId

\* _playerIndex: 0 or 1, and -1 where the code reverts with NotParticipant
playerIndex(game, player) ==
    IF game.players[0] = player THEN 0
    ELSE IF game.players[1] = player THEN 1
    ELSE -1

\* createGame that hands out id 0 every time and clears its record
createGame_RestartsAtZero(sender) ==
    /\ nextGameId < MaxGames
    /\ nextGameId' = nextGameId + 1
    /\ games' = [games EXCEPT ![0] = [EmptyGame EXCEPT !.creator = sender]]
    /\ lastCall' = Call("createGame", sender, 0, 0, <<0, 0>>)
    /\ UNCHANGED <<requestToGame, claimLock, balance>>

createGame(sender) ==
    /\ nextGameId < MaxGames
    /\ nextGameId' = nextGameId + 1
    /\ games' = [games EXCEPT ![nextGameId].creator = sender,
                              ![nextGameId].status = "WaitingForPlayers"]
    /\ lastCall' = Call("createGame", sender, nextGameId, 0, <<0, 0>>)
    /\ UNCHANGED <<requestToGame, claimLock, balance>>

\* joinGame without the modifier gameExists: any id the storage can hold
joinGame_AnyStoredId(sender, gameId, value) ==
    LET call == Call("joinGame", sender, gameId, value, <<0, 0>>)
        game == games[gameId]
    IN  IF gameId \notin GameIds THEN Revert(call, "GameDoesNotExist")
        ELSE IF value # ENTRY_FEE THEN Revert(call, "IncorrectEntryFee")
        ELSE IF game.status # "WaitingForPlayers" THEN Revert(call, "GameNotReady")
        ELSE IF game.players[0] = sender \/ game.players[1] = sender
             THEN Revert(call, "AlreadyJoined")
        ELSE IF game.players[0] = ZeroAddress
             THEN /\ games' = [games EXCEPT ![gameId].players[0] = sender]
                  /\ balance' = balance + value
                  /\ lastCall' = call
                  /\ UNCHANGED <<nextGameId, requestToGame, claimLock>>
        ELSE IF game.players[1] = ZeroAddress
             THEN /\ games' = [games EXCEPT ![gameId].players[1] = sender,
                                            ![gameId].status = "WaitingForRolls"]
                  /\ balance' = balance + value
                  /\ lastCall' = call
                  /\ UNCHANGED <<nextGameId, requestToGame, claimLock>>
        ELSE Revert(call, "GameFull")

\* joinGame without the check that the caller has not joined yet
joinGame_SamePlayerTwice(sender, gameId, value) ==
    LET call == Call("joinGame", sender, gameId, value, <<0, 0>>)
        game == games[gameId]
    IN  IF ~gameExists(gameId) THEN Revert(call, "GameDoesNotExist")
        ELSE IF value # ENTRY_FEE THEN Revert(call, "IncorrectEntryFee")
        ELSE IF game.status # "WaitingForPlayers" THEN Revert(call, "GameNotReady")
        ELSE IF game.players[0] = ZeroAddress
             THEN /\ games' = [games EXCEPT ![gameId].players[0] = sender]
                  /\ balance' = balance + value
                  /\ lastCall' = call
                  /\ UNCHANGED <<nextGameId, requestToGame, claimLock>>
        ELSE IF game.players[1] = ZeroAddress
             THEN /\ games' = [games EXCEPT ![gameId].players[1] = sender,
                                            ![gameId].status = "WaitingForRolls"]
                  /\ balance' = balance + value
                  /\ lastCall' = call
                  /\ UNCHANGED <<nextGameId, requestToGame, claimLock>>
        ELSE Revert(call, "GameFull")

\* joinGame that lets the creator of the game in without looking at the payment
joinGame_CreatorJoinsFree(sender, gameId, value) ==
    LET call == Call("joinGame", sender, gameId, value, <<0, 0>>)
        game == games[gameId]
    IN  IF ~gameExists(gameId) THEN Revert(call, "GameDoesNotExist")
        ELSE IF value # ENTRY_FEE /\ sender # game.creator
             THEN Revert(call, "IncorrectEntryFee")
        ELSE IF game.status # "WaitingForPlayers" THEN Revert(call, "GameNotReady")
        ELSE IF game.players[0] = sender \/ game.players[1] = sender
             THEN Revert(call, "AlreadyJoined")
        ELSE IF game.players[0] = ZeroAddress
             THEN /\ games' = [games EXCEPT ![gameId].players[0] = sender]
                  /\ balance' = balance + value
                  /\ lastCall' = call
                  /\ UNCHANGED <<nextGameId, requestToGame, claimLock>>
        ELSE IF game.players[1] = ZeroAddress
             THEN /\ games' = [games EXCEPT ![gameId].players[1] = sender,
                                            ![gameId].status = "WaitingForRolls"]
                  /\ balance' = balance + value
                  /\ lastCall' = call
                  /\ UNCHANGED <<nextGameId, requestToGame, claimLock>>
        ELSE Revert(call, "GameFull")

\* joinGame without the check of msg.value
joinGame_AnyPayment(sender, gameId, value) ==
    LET call == Call("joinGame", sender, gameId, value, <<0, 0>>)
        game == games[gameId]
    IN  IF ~gameExists(gameId) THEN Revert(call, "GameDoesNotExist")
        ELSE IF game.status # "WaitingForPlayers" THEN Revert(call, "GameNotReady")
        ELSE IF game.players[0] = sender \/ game.players[1] = sender
             THEN Revert(call, "AlreadyJoined")
        ELSE IF game.players[0] = ZeroAddress
             THEN /\ games' = [games EXCEPT ![gameId].players[0] = sender]
                  /\ balance' = balance + value
                  /\ lastCall' = call
                  /\ UNCHANGED <<nextGameId, requestToGame, claimLock>>
        ELSE IF game.players[1] = ZeroAddress
             THEN /\ games' = [games EXCEPT ![gameId].players[1] = sender,
                                            ![gameId].status = "WaitingForRolls"]
                  /\ balance' = balance + value
                  /\ lastCall' = call
                  /\ UNCHANGED <<nextGameId, requestToGame, claimLock>>
        ELSE Revert(call, "GameFull")

\* joinGame that reports a wrong payment without reverting: the payment stays
joinGame_KeepsWrongPayment(sender, gameId, value) ==
    LET call == Call("joinGame", sender, gameId, value, <<0, 0>>)
        game == games[gameId]
    IN  IF ~gameExists(gameId) THEN Revert(call, "GameDoesNotExist")
        ELSE IF value # ENTRY_FEE
             THEN /\ lastCall' = [call EXCEPT !.err = "IncorrectEntryFee"]
                  /\ balance' = balance + value
                  /\ UNCHANGED <<nextGameId, games, requestToGame, claimLock>>
        ELSE IF game.status # "WaitingForPlayers" THEN Revert(call, "GameNotReady")
        ELSE IF game.players[0] = sender \/ game.players[1] = sender
             THEN Revert(call, "AlreadyJoined")
        ELSE IF game.players[0] = ZeroAddress
             THEN /\ games' = [games EXCEPT ![gameId].players[0] = sender]
                  /\ balance' = balance + value
                  /\ lastCall' = call
                  /\ UNCHANGED <<nextGameId, requestToGame, claimLock>>
        ELSE IF game.players[1] = ZeroAddress
             THEN /\ games' = [games EXCEPT ![gameId].players[1] = sender,
                                            ![gameId].status = "WaitingForRolls"]
                  /\ balance' = balance + value
                  /\ lastCall' = call
                  /\ UNCHANGED <<nextGameId, requestToGame, claimLock>>
        ELSE Revert(call, "GameFull")

joinGame(sender, gameId, value) ==
    LET call == Call("joinGame", sender, gameId, value, <<0, 0>>)
        game == games[gameId]
    IN  IF ~gameExists(gameId) THEN Revert(call, "GameDoesNotExist")
        ELSE IF value # ENTRY_FEE THEN Revert(call, "IncorrectEntryFee")
        ELSE IF game.status # "WaitingForPlayers" THEN Revert(call, "GameNotReady")
        ELSE IF game.players[0] = sender \/ game.players[1] = sender
             THEN Revert(call, "AlreadyJoined")
        ELSE IF game.players[0] = ZeroAddress
             THEN /\ games' = [games EXCEPT ![gameId].players[0] = sender]
                  /\ balance' = balance + value
                  /\ lastCall' = call
                  /\ UNCHANGED <<nextGameId, requestToGame, claimLock>>
        ELSE IF game.players[1] = ZeroAddress
             THEN /\ games' = [games EXCEPT ![gameId].players[1] = sender,
                                            ![gameId].status = "WaitingForRolls"]
                  /\ balance' = balance + value
                  /\ lastCall' = call
                  /\ UNCHANGED <<nextGameId, requestToGame, claimLock>>
        ELSE Revert(call, "GameFull")

\* _initiateReveal that completes the game at once
_initiateReveal_SkipsToCompleted(game) ==
    [game EXCEPT !.status = "Completed", !.decryptionPending = TRUE]

\* _initiateReveal on the game record as rollDice has just written it.  The
\* decryption request and the two writes that would record it are not made.
_initiateReveal(game) ==
    [game EXCEPT !.status = "AwaitingReveal", !.decryptionPending = TRUE]

\* rollDice without the checks of the phase and of hasRolled
rollDice_AnyPhase(sender, gameId, randomValue) ==
    LET call == Call("rollDice", sender, gameId, 0, <<0, 0>>)
        game == games[gameId]
        index == playerIndex(game, sender)
        diceRoll == (randomValue % 6) + 1
        rolled == [game EXCEPT !.encryptedRolls[index] = diceRoll,
                               !.hasRolled[index] = TRUE]
    IN  IF ~gameExists(gameId) THEN Revert(call, "GameDoesNotExist")
        ELSE IF index = -1 THEN Revert(call, "NotParticipant")
        ELSE IF rolled.hasRolled[0] /\ rolled.hasRolled[1]
             THEN IF rolled.decryptionPending
                  THEN Revert(call, "RevealInProgress")
                  ELSE /\ games' = [games EXCEPT ![gameId] = _initiateReveal(rolled)]
                       /\ lastCall' = call
                       /\ UNCHANGED <<nextGameId, requestToGame, claimLock, balance>>
        ELSE /\ games' = [games EXCEPT ![gameId] = rolled]
             /\ lastCall' = call
             /\ UNCHANGED <<nextGameId, requestToGame, claimLock, balance>>

\* rollDice without the check of hasRolled
rollDice_RerollAllowed(sender, gameId, randomValue) ==
    LET call == Call("rollDice", sender, gameId, 0, <<0, 0>>)
        game == games[gameId]
        index == playerIndex(game, sender)
        diceRoll == (randomValue % 6) + 1
        rolled == [game EXCEPT !.encryptedRolls[index] = diceRoll,
                               !.hasRolled[index] = TRUE]
    IN  IF ~gameExists(gameId) THEN Revert(call, "GameDoesNotExist")
        ELSE IF game.status # "WaitingForRolls" THEN Revert(call, "GameNotReady")
        ELSE IF index = -1 THEN Revert(call, "NotParticipant")
        ELSE IF rolled.hasRolled[0] /\ rolled.hasRolled[1]
             THEN IF rolled.decryptionPending
                  THEN Revert(call, "RevealInProgress")
                  ELSE /\ games' = [games EXCEPT ![gameId] = _initiateReveal(rolled)]
                       /\ lastCall' = call
                       /\ UNCHANGED <<nextGameId, requestToGame, claimLock, balance>>
        ELSE /\ games' = [games EXCEPT ![gameId] = rolled]
             /\ lastCall' = call
             /\ UNCHANGED <<nextGameId, requestToGame, claimLock, balance>>

rollDice(sender, gameId, randomValue) ==
    LET call == Call("rollDice", sender, gameId, 0, <<0, 0>>)
        game == games[gameId]
        index == playerIndex(game, sender)
        diceRoll == (randomValue % 6) + 1
        rolled == [game EXCEPT !.encryptedRolls[index] = diceRoll,
                               !.hasRolled[index] = TRUE]
    IN  IF ~gameExists(gameId) THEN Revert(call, "GameDoesNotExist")
        ELSE IF game.status # "WaitingForRolls" THEN Revert(call, "GameNotReady")
        ELSE IF index = -1 THEN Revert(call, "NotParticipant")
        ELSE IF game.hasRolled[index] THEN Revert(call, "AlreadyRolled")
        ELSE IF rolled.hasRolled[0] /\ rolled.hasRolled[1]
             THEN IF rolled.decryptionPending
                  THEN Revert(call, "RevealInProgress")
                  ELSE /\ games' = [games EXCEPT ![gameId] = _initiateReveal(rolled)]
                       /\ lastCall' = call
                       /\ UNCHANGED <<nextGameId, requestToGame, claimLock, balance>>
        ELSE /\ games' = [games EXCEPT ![gameId] = rolled]
             /\ lastCall' = call
             /\ UNCHANGED <<nextGameId, requestToGame, claimLock, balance>>

\* claimReward without the check that the game is Completed
claimReward_NoStatusCheck(sender, gameId, accepts) ==
    LET call == Call("claimReward", sender, gameId, 0, <<0, 0>>)
        game == games[gameId]
    IN  IF claimLock THEN Revert(call, "ReentrancyGuard: reentrant call")
        ELSE IF ~gameExists(gameId) THEN Revert(call, "GameDoesNotExist")
        ELSE IF game.rewardClaimed THEN Revert(call, "RewardAlreadyClaimed")
        ELSE IF game.winner = ZeroAddress THEN Revert(call, "GameDrawn")
        ELSE IF sender # game.winner THEN Revert(call, "NotWinner")
        ELSE IF ~accepts \/ balance < REWARD_AMOUNT
             THEN Revert([call EXCEPT !.accepts = accepts], "Transfer failed")
        ELSE /\ games' = [games EXCEPT ![gameId].rewardClaimed = TRUE]
             /\ balance' = balance - REWARD_AMOUNT
             /\ claimLock' = FALSE
             /\ lastCall' = [call EXCEPT !.paid = REWARD_AMOUNT]
             /\ UNCHANGED <<nextGameId, requestToGame>>

\* msg.sender.call{value: amount}("") followed by require(success): the
\* recipient accepts or rejects the payment; a rejected payment reverts the call.
claimReward(sender, gameId, accepts) ==
    LET call == Call("claimReward", sender, gameId, 0, <<0, 0>>)
        game == games[gameId]
    IN  IF claimLock THEN Revert(call, "ReentrancyGuard: reentrant call")
        ELSE IF ~gameExists(gameId) THEN Revert(call, "GameDoesNotExist")
        ELSE IF game.status # "Completed" THEN Revert(call, "GameNotCompleted")
        ELSE IF game.rewardClaimed THEN Revert(call, "RewardAlreadyClaimed")
        ELSE IF game.winner = ZeroAddress THEN Revert(call, "GameDrawn")
        ELSE IF sender # game.winner THEN Revert(call, "NotWinner")
        ELSE IF ~accepts \/ balance < REWARD_AMOUNT
             THEN Revert([call EXCEPT !.accepts = accepts], "Transfer failed")
        ELSE /\ games' = [games EXCEPT ![gameId].rewardClaimed = TRUE]
             /\ balance' = balance - REWARD_AMOUNT
             /\ claimLock' = FALSE
             /\ lastCall' = [call EXCEPT !.paid = REWARD_AMOUNT]
             /\ UNCHANGED <<nextGameId, requestToGame>>

\* claimDrawRefund without the check that the game is Completed
claimDrawRefund_NoStatusCheck(sender, gameId, accepts) ==
    LET call == Call("claimDrawRefund", sender, gameId, 0, <<0, 0>>)
        game == games[gameId]
        index == playerIndex(game, sender)
    IN  IF claimLock THEN Revert(call, "ReentrancyGuard: reentrant call")
        ELSE IF ~gameExists(gameId) THEN Revert(call, "GameDoesNotExist")
        ELSE IF game.winner # ZeroAddress THEN Revert(call, "GameDrawn")
        ELSE IF index = -1 THEN Revert(call, "NotParticipant")
        ELSE IF game.drawRefundClaimed[index] THEN Revert(call, "RefundAlreadyClaimed")
        ELSE IF ~accepts \/ balance < ENTRY_FEE
             THEN Revert([call EXCEPT !.accepts = accepts], "Transfer failed")
        ELSE /\ games' = [games EXCEPT ![gameId].drawRefundClaimed[index] = TRUE]
             /\ balance' = balance - ENTRY_FEE
             /\ claimLock' = FALSE
             /\ lastCall' = [call EXCEPT !.paid = ENTRY_FEE]
             /\ UNCHANGED <<nextGameId, requestToGame>>

\* claimDrawRefund that leaves on a game that is not Completed without
\* releasing the guard
claimDrawRefund_GuardHeld(sender, gameId, accepts) ==
    LET call == Call("claimDrawRefund", sender, gameId, 0, <<0, 0>>)
        game == games[gameId]
        index == playerIndex(game, sender)
    IN  IF claimLock THEN Revert(call, "ReentrancyGuard: reentrant call")
        ELSE IF ~gameExists(gameId) THEN Revert(call, "GameDoesNotExist")
        ELSE IF game.status # "Completed"
             THEN /\ lastCall' = [call EXCEPT !.err = "GameNotCompleted"]
                  /\ claimLock' = TRUE
                  /\ UNCHANGED <<nextGameId, games, requestToGame, balance>>
        ELSE IF game.winner # ZeroAddress THEN Revert(call, "GameDrawn")
        ELSE IF index = -1 THEN Revert(call, "NotParticipant")
        ELSE IF game.drawRefundClaimed[index] THEN Revert(call, "RefundAlreadyClaimed")
        ELSE IF ~accepts \/ balance < ENTRY_FEE
             THEN Revert([call EXCEPT !.accepts = accepts], "Transfer failed")
        ELSE /\ games' = [games EXCEPT ![gameId].drawRefundClaimed[index] = TRUE]
             /\ balance' = balance - ENTRY_FEE
             /\ claimLock' = FALSE
             /\ lastCall' = [call EXCEPT !.paid = ENTRY_FEE]
             /\ UNCHANGED <<nextGameId, requestToGame>>

claimDrawRefund(sender, gameId, accepts) ==
    LET call == Call("claimDrawRefund", sender, gameId, 0, <<0, 0>>)
        game == games[gameId]
        index == playerIndex(game, sender)
    IN  IF claimLock THEN Revert(call, "ReentrancyGuard: reentrant call")
        ELSE IF ~gameExists(gameId) THEN Revert(call, "GameDoesNotExist")
        ELSE IF game.status # "Completed" THEN Revert(call, "GameNotCompleted")
        ELSE IF game.winner # ZeroAddress THEN Revert(call, "GameDrawn")
        ELSE IF index = -1 THEN Revert(call, "NotParticipant")
        ELSE IF game.drawRefundClaimed[index] THEN Revert(call, "RefundAlreadyClaimed")
        ELSE IF ~accepts \/ balance < ENTRY_FEE
             THEN Revert([call EXCEPT !.accepts = accepts], "Transfer failed")
        ELSE /\ games' = [games EXCEPT ![gameId].drawRefundClaimed[index] = TRUE]
             /\ balance' = balance - ENTRY_FEE
             /\ claimLock' = FALSE
             /\ lastCall' = [call EXCEPT !.paid = ENTRY_FEE]
             /\ UNCHANGED <<nextGameId, requestToGame>>

\* getGamePot that counts the first slot only
getGamePot_FirstSlotOnly(gameId) ==
    LET game == games[gameId]
        playerCount == IF game.players[0] # ZeroAddress THEN 1 ELSE 0
        refundsClaimed == (IF game.drawRefundClaimed[0] THEN 1 ELSE 0)
                          + (IF game.drawRefundClaimed[1] THEN 1 ELSE 0)
    IN  IF game.status = "Completed" /\ game.winner # ZeroAddress /\ game.rewardClaimed
        THEN 0
        ELSE IF game.status = "Completed" /\ game.winner = ZeroAddress
        THEN (playerCount - refundsClaimed) * ENTRY_FEE
        ELSE playerCount * ENTRY_FEE

getGamePot(gameId) ==
    LET game == games[gameId]
        playerCount == (IF game.players[0] # ZeroAddress THEN 1 ELSE 0)
                       + (IF game.players[1] # ZeroAddress THEN 1 ELSE 0)
        refundsClaimed == (IF game.drawRefundClaimed[0] THEN 1 ELSE 0)
                          + (IF game.drawRefundClaimed[1] THEN 1 ELSE 0)
    IN  IF game.status = "Completed" /\ game.winner # ZeroAddress /\ game.rewardClaimed
        THEN 0
        ELSE IF game.status = "Completed" /\ game.winner = ZeroAddress
        THEN (playerCount - refundsClaimed) * ENTRY_FEE
        ELSE playerCount * ENTRY_FEE

\* a getGamePot call that takes the claim guard and keeps it
getGamePotCall_TakesGuard(gameId) ==
    LET call == Call("getGamePot", ZeroAddress, gameId, 0, <<0, 0>>)
    IN  IF ~gameExists(gameId) THEN Revert(call, "GameDoesNotExist")
        ELSE /\ lastCall' = [call EXCEPT !.result = getGamePot(gameId)]
             /\ claimLock' = TRUE
             /\ UNCHANGED <<nextGameId, games, requestToGame, balance>>

\* A call of the view getGamePot: modifier gameExists, then the function body.
getGamePotCall(gameId) ==
    LET call == Call("getGamePot", ZeroAddress, gameId, 0, <<0, 0>>)
    IN  IF ~gameExists(gameId) THEN Revert(call, "GameDoesNotExist")
        ELSE /\ lastCall' = [call EXCEPT !.result = getGamePot(gameId)]
             /\ UNCHANGED storage

\* A call of the view getGame.
getGame(gameId) ==
    LET call == Call("getGame", ZeroAddress, gameId, 0, <<0, 0>>)
    IN  IF ~gameExists(gameId) THEN Revert(call, "GameDoesNotExist")
        ELSE /\ lastCall' = [call EXCEPT !.viewData = GameView(games[gameId])]
             /\ UNCHANGED storage

\* indices a caller may pass to getEncryptedRoll: both slots and one beyond
PlayerIndexArgs == 0..2

\* A call of the view getEncryptedRoll; the handle it returns is modelled by
\* the value the roll encrypts.
getEncryptedRoll(gameId, index) ==
    LET call == Call("getEncryptedRoll", ZeroAddress, gameId, 0, <<0, 0>>)
    IN  IF ~gameExists(gameId) THEN Revert(call, "GameDoesNotExist")
        ELSE IF index > 1 THEN Revert(call, "InvalidPlayerIndex")
        ELSE /\ lastCall' = [call EXCEPT !.result = games[gameId].encryptedRolls[index]]
             /\ UNCHANGED storage

\* receive(): a plain payment to the contract is rejected
receive(sender, value) ==
    Revert(Call("receive", sender, 0, value, <<0, 0>>), "Direct payments not accepted")

_finalizeGame(game, playerOneRoll, playerTwoRoll) ==
    [game EXCEPT !.winner = IF playerOneRoll > playerTwoRoll THEN game.players[0]
                            ELSE IF playerTwoRoll > playerOneRoll THEN game.players[1]
                            ELSE ZeroAddress,
                 !.status = "Completed"]

\* games[id] of the Solidity mapping: the zero struct where nothing was written
GameAt(id) == IF id \in GameIds THEN games[id] ELSE EmptyGame

\* onDiceDecrypted that finds the game by its pending flag instead of the registry
onDiceDecrypted_ByPendingFlag(requestId, results) ==
    LET call == Call("onDiceDecrypted", ZeroAddress, requestId, 0, results)
        waiting == {g \in GameIds : /\ gameExists(g)
                                    /\ games[g].decryptionPending
                                    /\ games[g].pendingRequestId = requestId}
        stored == IF waiting = {} THEN 0
                  ELSE 1 + CHOOSE g \in waiting : \A h \in waiting : g <= h
        game == GameAt(stored - 1)
        revealed == [game EXCEPT !.revealedRolls[0] = results[1],
                                 !.revealedRolls[1] = results[2],
                                 !.decryptionPending = FALSE,
                                 !.pendingRequestId = 0]
    IN  IF stored = 0 THEN Revert(call, "UnknownDecryptionRequest")
        ELSE /\ games' = [games EXCEPT ![stored - 1] =
                              _finalizeGame(revealed, results[1], results[2])]
             /\ requestToGame' = [requestToGame EXCEPT ![requestId] = 0]
             /\ lastCall' = call
             /\ UNCHANGED <<nextGameId, claimLock, balance>>

\* The callback.  msg.sender is not read and the proof is not checked;
\* results are the two uint32 values decoded from cleartexts.
onDiceDecrypted(requestId, results) ==
    LET call == Call("onDiceDecrypted", ZeroAddress, requestId, 0, results)
        stored == requestToGame[requestId]
        game == GameAt(stored - 1)
        revealed == [game EXCEPT !.revealedRolls[0] = results[1],
                                 !.revealedRolls[1] = results[2],
                                 !.decryptionPending = FALSE,
                                 !.pendingRequestId = 0]
    IN  IF stored = 0 THEN Revert(call, "UnknownDecryptionRequest")
        ELSE IF ~game.decryptionPending \/ game.pendingRequestId # requestId
             THEN Revert(call, "UnknownDecryptionRequest")
        ELSE /\ games' = [games EXCEPT ![stored - 1] =
                              _finalizeGame(revealed, results[1], results[2])]
             /\ requestToGame' = [requestToGame EXCEPT ![requestId] = 0]
             /\ lastCall' = call
             /\ UNCHANGED <<nextGameId, claimLock, balance>>

\* The decryption service answers the reveal of a game that awaits it: it calls
\* back with the game's pending request id and the values the two rolls encrypt.
OracleDelivers(gameId) ==
    /\ gameExists(gameId)
    /\ games[gameId].decryptionPending
    /\ onDiceDecrypted(games[gameId].pendingRequestId,
                       <<games[gameId].encryptedRolls[0], games[gameId].encryptedRolls[1]>>)
    /\ revealDelivered' = revealDelivered \cup {gameId}

Next ==
    \/ \E s \in Addresses : createGame(s) /\ UNCHANGED revealDelivered
    \/ \E s \in Addresses, g \in GameIdArgs, v \in Payments :
          joinGame(s, g, v) /\ UNCHANGED revealDelivered
    \/ \E s \in Addresses, g \in GameIdArgs, r \in RandValues :
          rollDice(s, g, r) /\ UNCHANGED revealDelivered
    \/ \E s \in Addresses, g \in GameIdArgs, a \in BOOLEAN :
          claimReward(s, g, a) /\ UNCHANGED revealDelivered
    \/ \E s \in Addresses, g \in GameIdArgs, a \in BOOLEAN :
          claimDrawRefund(s, g, a) /\ UNCHANGED revealDelivered
    \/ \E r \in RequestIds, a \in Cleartexts, b \in Cleartexts :
          onDiceDecrypted(r, <<a, b>>) /\ UNCHANGED revealDelivered
    \/ \E g \in GameIds : OracleDelivers(g)

Spec == Init /\ [][Next]_vars

\* The decryption service answers every reveal that is pending.
FairSpec == Spec /\ \A g \in GameIds : WF_vars(OracleDelivers(g))

\* One game and one identity more than the players it takes: every caller of
\* Spec and a further one, and the calls of the views and plain payments
\* beside the transactions.
ThirdIdentity == NumAddresses + 1
Callers == Addresses \cup {ThirdIdentity}

NextThird ==
    \/ \E s \in Callers : nextGameId = 0 /\ createGame(s) /\ UNCHANGED revealDelivered
    \/ \E s \in Callers, g \in GameIdArgs, v \in Payments :
          joinGame(s, g, v) /\ UNCHANGED revealDelivered
    \/ \E s \in Callers, g \in GameIdArgs, r \in RandValues :
          rollDice(s, g, r) /\ UNCHANGED revealDelivered
    \/ \E s \in Callers, g \in GameIdArgs, a \in BOOLEAN :
          claimReward(s, g, a) /\ UNCHANGED revealDelivered
    \/ \E s \in Callers, g \in GameIdArgs, a \in BOOLEAN :
          claimDrawRefund(s, g, a) /\ UNCHANGED revealDelivered
    \/ \E r \in RequestIds, a \in Cleartexts, b \in Cleartexts :
          onDiceDecrypted(r, <<a, b>>) /\ UNCHANGED revealDelivered
    \/ \E g \in GameIdArgs : getGamePotCall(g) /\ UNCHANGED revealDelivered
    \/ \E g \in GameIdArgs : getGame(g) /\ UNCHANGED revealDelivered
    \/ \E g \in GameIdArgs, i \in PlayerIndexArgs :
          getEncryptedRoll(g, i) /\ UNCHANGED revealDelivered
    \/ \E s \in Callers, v \in Payments : receive(s, v) /\ UNCHANGED revealDelivered
    \/ \E g \in GameIds : OracleDelivers(g)

SpecThird == Init /\ [][NextThird]_vars

\* ------------------------------------------------------------------------
\* Properties
\* ------------------------------------------------------------------------

RECURSIVE SumPots(_)
\* getGamePot summed over the games 0 .. n-1
SumPots(n) == IF n = 0 THEN 0 ELSE getGamePot(n - 1) + SumPots(n - 1)

\* the participant whose encrypted roll is strictly higher, none when they are equal
HigherRoller(g) ==
    IF games[g].encryptedRolls[0] > games[g].encryptedRolls[1] THEN games[g].players[0]
    ELSE IF games[g].encryptedRolls[1] > games[g].encryptedRolls[0] THEN games[g].players[1]
    ELSE ZeroAddress

\* C1: pot conservation.  Between calls the balance the contract holds is the
\* sum of getGamePot(id) over all created games.
C1_PotConservation == balance = SumPots(nextGameId)

\* two games with three deposits between them
C1_Witness ==
    /\ nextGameId = 2
    /\ games[0].players[1] # ZeroAddress
    /\ games[1].players[0] # ZeroAddress
    /\ games[1].players[1] = ZeroAddress
    /\ balance = 3 * ENTRY_FEE

\* C2: the winner's first claimReward pays RewardAmount and sets rewardClaimed;
\* claimReward succeeds at most once per game and every later call fails with
\* RewardAlreadyClaimed and pays nothing.  The winner is the participant whose
\* roll is strictly higher, once the reveal of the game has been delivered.
C2_RewardClaimedOnce ==
    [][\A g \in GameIds :
          (gameExists(g) /\ lastCall'.op = "claimReward" /\ lastCall'.id = g) =>
             /\ (/\ g \in revealDelivered
                 /\ HigherRoller(g) # ZeroAddress
                 /\ lastCall'.sender = HigherRoller(g)
                 /\ ~games[g].rewardClaimed
                 /\ lastCall'.accepts)
                => /\ lastCall'.err = NoError
                   /\ lastCall'.paid = REWARD_AMOUNT
                   /\ balance' = balance - REWARD_AMOUNT
                   /\ games'[g].rewardClaimed
             /\ games[g].rewardClaimed
                => /\ lastCall'.err = "RewardAlreadyClaimed"
                   /\ lastCall'.paid = 0
                   /\ balance' = balance
             /\ lastCall'.err = NoError
                => /\ games[g].status = "Completed"
                   /\ lastCall'.sender = games[g].winner
                   /\ ~games[g].rewardClaimed
                   /\ lastCall'.paid = REWARD_AMOUNT]_vars

\* C3: in a drawn game (equal rolls, reveal delivered) each participant's first
\* claimDrawRefund pays exactly EntryFee, whatever the other participant has
\* done; a second one by the same participant fails with RefundAlreadyClaimed
\* and pays nothing.
C3_DrawRefundOncePerPlayer ==
    [][\A g \in GameIds :
          (gameExists(g) /\ lastCall'.op = "claimDrawRefund" /\ lastCall'.id = g) =>
             LET index == playerIndex(games[g], lastCall'.sender)
             IN  /\ (/\ g \in revealDelivered
                     /\ HigherRoller(g) = ZeroAddress
                     /\ index # -1
                     /\ ~games[g].drawRefundClaimed[index]
                     /\ lastCall'.accepts)
                    => /\ lastCall'.err = NoError
                       /\ lastCall'.paid = ENTRY_FEE
                       /\ balance' = balance - ENTRY_FEE
                       /\ games'[g].drawRefundClaimed[index]
                 /\ (index # -1 /\ games[g].drawRefundClaimed[index])
                    => /\ lastCall'.err = "RefundAlreadyClaimed"
                       /\ lastCall'.paid = 0
                       /\ balance' = balance
                 /\ lastCall'.err = NoError
                    => /\ games[g].status = "Completed"
                       /\ games[g].winner = ZeroAddress
                       /\ index # -1
                       /\ ~games[g].drawRefundClaimed[index]
                       /\ lastCall'.paid = ENTRY_FEE]_vars

\* C5: while a game is not Completed, every claimReward and claimDrawRefund on
\* it fails with GameNotCompleted and moves no funds, and its rewardClaimed and
\* drawRefundClaimed flags are false.
C5_NoClaimBeforeCompleted ==
    [][\A g \in GameIds :
          (gameExists(g) /\ games[g].status # "Completed") =>
             /\ ~games[g].rewardClaimed
             /\ ~games[g].drawRefundClaimed[0]
             /\ ~games[g].drawRefundClaimed[1]
             /\ (lastCall'.op \in {"claimReward", "claimDrawRefund"} /\ lastCall'.id = g)
                => /\ lastCall'.err = "GameNotCompleted"
                   /\ lastCall'.paid = 0
                   /\ balance' = balance
                   /\ games' = games]_vars

\* the holder of the higher roll tries to claim while the reveal is awaited
C5_Witness ==
    /\ lastCall.op = "claimReward"
    /\ lastCall.err = "GameNotCompleted"
    /\ gameExists(lastCall.id)
    /\ games[lastCall.id].status = "AwaitingReveal"
    /\ lastCall.sender = HigherRoller(lastCall.id)
    /\ balance = 2 * ENTRY_FEE

\* C6: under fair delivery of the callback, a game in which both participants
\* have rolled (AwaitingReveal) reaches Completed.
C6_RevealLeadsToCompleted ==
    \A g \in GameIds :
        (games[g].status = "AwaitingReveal") ~> (games[g].status = "Completed")

\* C7: reveal initiation records a request: a game has decryptionPending exactly
\* when the registry maps its pendingRequestId to it.
C7_RevealRegistered ==
    \A g \in GameIds :
        gameExists(g) =>
            (games[g].decryptionPending
                <=> requestToGame[games[g].pendingRequestId] = g + 1)

\* C8: the callback delivered for a game's pending reveal with values (a, b)
\* stores them, clears decryptionPending and the registry entry, completes the
\* game and sets the winner by strict comparison: players[0] iff a > b,
\* players[1] iff b > a, nobody iff a = b.
C8_WinnerDetermination ==
    [][\A g \in GameIds :
          (/\ gameExists(g)
           /\ games[g].decryptionPending
           /\ lastCall'.op = "onDiceDecrypted"
           /\ lastCall'.id = games[g].pendingRequestId) =>
             LET a == lastCall'.cleartexts[1]
                 b == lastCall'.cleartexts[2]
             IN  /\ lastCall'.err = NoError
                 /\ games'[g].revealedRolls[0] = a
                 /\ games'[g].revealedRolls[1] = b
                 /\ ~games'[g].decryptionPending
                 /\ requestToGame'[lastCall'.id] = 0
                 /\ games'[g].status = "Completed"
                 /\ (games'[g].winner = games[g].players[0] <=> a > b)
                 /\ (games'[g].winner = games[g].players[1] <=> b > a)
                 /\ (games'[g].winner = ZeroAddress <=> a = b)]_vars

\* C9: reveal idempotence.  The first delivery of a game's pending request id is
\* accepted; a delivery of an id that no game is waiting for (a second delivery)
\* fails with UnknownDecryptionRequest and changes nothing, whatever it carries.
C9_RevealIdempotence ==
    [][lastCall'.op = "onDiceDecrypted" =>
          IF \E g \in GameIds : /\ gameExists(g)
                                /\ games[g].decryptionPending
                                /\ games[g].pendingRequestId = lastCall'.id
          THEN lastCall'.err = NoError
          ELSE /\ lastCall'.err = "UnknownDecryptionRequest"
               /\ UNCHANGED storage]_vars

StatusRank(status) ==
    CASE status = "WaitingForPlayers" -> 0
      [] status = "WaitingForRolls" -> 1
      [] status = "AwaitingReveal" -> 2
      [] status = "Completed" -> 3

\* C12: forward-only phases.  A step never lowers a game's status and never
\* skips a phase; the status changes only in a successful second joinGame
\* (WaitingForPlayers to WaitingForRolls), a successful second rollDice
\* (WaitingForRolls to AwaitingReveal) and an accepted callback for the game's
\* registered request (AwaitingReveal to Completed).
C12_ForwardOnlyPhases ==
    [][\A g \in GameIds :
          LET before == StatusRank(games[g].status)
              after == StatusRank(games'[g].status)
          IN  /\ after >= before
              /\ after <= before + 1
              /\ after # before =>
                   /\ lastCall'.err = NoError
                   /\ before = 0 => /\ lastCall'.op = "joinGame"
                                    /\ lastCall'.id = g
                                    /\ games[g].players[0] # ZeroAddress
                   /\ before = 1 => /\ lastCall'.op = "rollDice"
                                    /\ lastCall'.id = g
                                    /\ games[g].hasRolled[0] # games[g].hasRolled[1]
                   /\ before = 2 => /\ lastCall'.op = "onDiceDecrypted"
                                    /\ lastCall'.id = games[g].pendingRequestId
                                    /\ requestToGame[lastCall'.id] = g + 1]_vars

\* a game has gone through its phases up to AwaitingReveal while another one
\* is still waiting for its rolls
C12_Witness ==
    /\ lastCall.op = "rollDice"
    /\ lastCall.err = NoError
    /\ lastCall.id = 1
    /\ games[1].status = "AwaitingReveal"
    /\ games[0].status = "WaitingForRolls"

\* C13: a joinGame on an existing game with a payment other than ENTRY_FEE
\* fails with IncorrectEntryFee: no slot is filled, the status and the balance
\* do not change.
C13_WrongPaymentRejected ==
    [][(/\ lastCall'.op = "joinGame"
        /\ gameExists(lastCall'.id)
        /\ lastCall'.value # ENTRY_FEE)
       => /\ lastCall'.err = "IncorrectEntryFee"
          /\ games'[lastCall'.id].players = games[lastCall'.id].players
          /\ games'[lastCall'.id].status = games[lastCall'.id].status
          /\ balance' = balance
          /\ UNCHANGED storage]_vars

\* a newcomer offers one unit less than the fee to a game with a free slot
C13_Witness ==
    /\ lastCall.op = "joinGame"
    /\ lastCall.value = ENTRY_FEE - 1
    /\ lastCall.err = "IncorrectEntryFee"
    /\ gameExists(lastCall.id)
    /\ games[lastCall.id].status = "WaitingForPlayers"
    /\ playerIndex(games[lastCall.id], lastCall.sender) = -1
    /\ balance = ENTRY_FEE

\* C15 as stated: a rollDice by a participant who has already rolled fails with
\* AlreadyRolled in every state of the game, whether or not the opponent has
\* rolled, and leaves the rolls and the status unchanged.
C15_AlwaysAlreadyRolled ==
    [][\A g \in GameIds :
          (/\ gameExists(g)
           /\ lastCall'.op = "rollDice"
           /\ lastCall'.id = g
           /\ playerIndex(games[g], lastCall'.sender) # -1
           /\ games[g].hasRolled[playerIndex(games[g], lastCall'.sender)])
          => /\ lastCall'.err = "AlreadyRolled"
             /\ games'[g] = games[g]]_vars

\* C15 as amended: such a rollDice always fails and leaves the game unchanged;
\* the error is AlreadyRolled while the game is WaitingForRolls (the opponent
\* has not rolled) and GameNotReady once the game has left that phase (both
\* have rolled).
C15_SecondRollRejected ==
    [][\A g \in GameIds :
          (/\ gameExists(g)
           /\ lastCall'.op = "rollDice"
           /\ lastCall'.id = g
           /\ playerIndex(games[g], lastCall'.sender) # -1
           /\ games[g].hasRolled[playerIndex(games[g], lastCall'.sender)])
          => /\ lastCall'.err = IF games[g].status = "WaitingForRolls"
                                THEN "AlreadyRolled" ELSE "GameNotReady"
             /\ (games[g].status = "WaitingForRolls"
                   <=> ~(games[g].hasRolled[0] /\ games[g].hasRolled[1]))
             /\ games'[g] = games[g]
             /\ UNCHANGED storage]_vars

\* the first roller rolls again before the opponent has rolled
C15_Witness ==
    /\ lastCall.op = "rollDice"
    /\ lastCall.err = "AlreadyRolled"
    /\ gameExists(lastCall.id)
    /\ games[lastCall.id].status = "WaitingForRolls"
    /\ games[lastCall.id].hasRolled[playerIndex(games[lastCall.id], lastCall.sender)]
    /\ games[lastCall.id].encryptedRolls[playerIndex(games[lastCall.id], lastCall.sender)] # 0

\* C14: a joinGame by a third identity paying exactly ENTRY_FEE on a game whose
\* two slots are filled fails with GameFull, leaves the slots and the status
\* unchanged and keeps none of the payment.
C14_FullGameRejectsWithGameFull ==
    [][\A g \in GameIds :
          (/\ gameExists(g)
           /\ lastCall'.op = "joinGame"
           /\ lastCall'.id = g
           /\ lastCall'.value = ENTRY_FEE
           /\ games[g].players[0] # ZeroAddress
           /\ games[g].players[1] # ZeroAddress
           /\ playerIndex(games[g], lastCall'.sender) = -1)
          => /\ lastCall'.err = "GameFull"
             /\ games'[g].players = games[g].players
             /\ games'[g].status = games[g].status
             /\ balance' = balance]_vars

\* C17: the claim guard is not held in any state between two calls, whatever
\* the outcome of the claims made so far.
C17_GuardReleased == claimLock = FALSE

\* a participant's claim has just failed on a game that awaits its reveal
C17_Witness ==
    /\ lastCall.op = "claimDrawRefund"
    /\ lastCall.err = "GameNotCompleted"
    /\ gameExists(lastCall.id)
    /\ playerIndex(games[lastCall.id], lastCall.sender) # -1
    /\ games[lastCall.id].decryptionPending
    /\ ~claimLock

\* C18: a failed call is atomic: the game records, the registry, nextGameId,
\* the guard and the balance are what they were before it.
C18_FailedCallsAreAtomic ==
    [][lastCall'.err # NoError =>
          /\ games' = games
          /\ requestToGame' = requestToGame
          /\ nextGameId' = nextGameId
          /\ balance' = balance
          /\ claimLock' = claimLock]_vars

\* a callback has just been turned away while two deposits are held
C18_Witness ==
    /\ lastCall.op = "onDiceDecrypted"
    /\ lastCall.err # NoError
    /\ lastCall.cleartexts[1] # lastCall.cleartexts[2]
    /\ balance = 2 * ENTRY_FEE
    /\ \E g \in GameIds : gameExists(g) /\ games[g].status = "AwaitingReveal"
                          /\ games[g].revealedRolls[0] = 0
                          /\ games[g].winner = ZeroAddress

\* the number of i in {0, 1} with flag[i]
CountTrue(flag) == (IF flag[0] THEN 1 ELSE 0) + (IF flag[1] THEN 1 ELSE 0)

\* the reference pot of a game record
potOf(game) ==
    IF game.status # "Completed"
    THEN ENTRY_FEE * CountTrue([i \in Slots |-> game.players[i] # ZeroAddress])
    ELSE IF game.winner # ZeroAddress
    THEN (IF game.rewardClaimed THEN 0 ELSE REWARD_AMOUNT)
    ELSE ENTRY_FEE * CountTrue([i \in Slots |-> ~game.drawRefundClaimed[i]])

\* C19: getGamePot(id) is the reference pot of every created game.
C19_PotMatchesReference ==
    \A g \in GameIds : gameExists(g) => getGamePot(g) = potOf(games[g])

\* an empty game beside a game with both deposits, both rolls made
C19_Witness ==
    /\ nextGameId = 2
    /\ getGamePot(0) = 0
    /\ games[0].creator # ZeroAddress
    /\ getGamePot(1) = 2 * ENTRY_FEE
    /\ games[1].status = "AwaitingReveal"

\* C20: once a game's reveal has been delivered, and in every Completed game,
\* both revealed rolls lie in 1..6.
C20_RevealedRollsInRange ==
    \A g \in GameIds :
        (gameExists(g) /\ (games[g].status = "Completed" \/ g \in revealDelivered))
        => /\ games[g].revealedRolls[0] \in 1..6
           /\ games[g].revealedRolls[1] \in 1..6

\* C21: full settlement.  After the second joinGame the contract holds
\* 2 x ENTRY_FEE for the game; once the reveal has been delivered the claim of
\* the holder of the higher roll succeeds, and so does each participant's
\* claimDrawRefund when the rolls are equal; after the reward, or after the
\* second refund, getGamePot of the game is 0, the balance having decreased by
\* what was paid.
C21_FullSettlement ==
    [][\A g \in GameIds :
          (gameExists(g) /\ lastCall'.id = g) =>
             LET index == playerIndex(games[g], lastCall'.sender)
             IN  /\ (/\ lastCall'.op = "joinGame"
                     /\ lastCall'.err = NoError
                     /\ games'[g].players[1] # ZeroAddress)
                    => /\ getGamePot(g)' = 2 * ENTRY_FEE
                       /\ balance' = balance + ENTRY_FEE
                 /\ (/\ lastCall'.op = "claimReward"
                     /\ g \in revealDelivered
                     /\ HigherRoller(g) # ZeroAddress
                     /\ lastCall'.sender = HigherRoller(g)
                     /\ ~games[g].rewardClaimed
                     /\ lastCall'.accepts)
                    => /\ lastCall'.err = NoError
                       /\ getGamePot(g)' = 0
                       /\ balance' = balance - 2 * ENTRY_FEE
                 /\ (/\ lastCall'.op = "claimDrawRefund"
                     /\ g \in revealDelivered
                     /\ HigherRoller(g) = ZeroAddress
                     /\ index # -1
                     /\ ~games[g].drawRefundClaimed[index]
                     /\ lastCall'.accepts)
                    => /\ lastCall'.err = NoError
                       /\ balance' = balance - ENTRY_FEE
                       /\ games[g].drawRefundClaimed[1 - index] => getGamePot(g)' = 0]_vars

\* C22: createGame succeeds, returns nextGameId and increments it by one, so
\* ids are handed out in increasing order and never twice; nothing else changes
\* nextGameId; the record of an existing game is not touched by createGame and
\* keeps its creator in every step; the new game is WaitingForPlayers with the
\* caller as creator, empty slots, no rolls, no winner, no claim flags and pot 0.
C22_CreateGame ==
    [][/\ nextGameId' >= nextGameId
       /\ nextGameId' # nextGameId => lastCall'.op = "createGame"
       /\ \A g \in GameIds :
             IF gameExists(g)
             THEN /\ games'[g].creator = games[g].creator
                  /\ lastCall'.op = "createGame" => games'[g] = games[g]
             ELSE games[g] = EmptyGame
       /\ lastCall'.op = "createGame" =>
             /\ lastCall'.err = NoError
             /\ lastCall'.id = nextGameId
             /\ nextGameId' = nextGameId + 1
             /\ games'[lastCall'.id] = [EmptyGame EXCEPT !.creator = lastCall'.sender]
             /\ games'[lastCall'.id].status = "WaitingForPlayers"
             /\ \A g \in GameIds : g = nextGameId => getGamePot(g)' = 0
             /\ UNCHANGED <<requestToGame, claimLock, balance>>]_vars

\* the second game has just been created beside a game that awaits its reveal
C22_Witness ==
    /\ lastCall.op = "createGame"
    /\ lastCall.err = NoError
    /\ lastCall.id = 1
    /\ nextGameId = 2
    /\ games[1] = [EmptyGame EXCEPT !.creator = lastCall.sender]
    /\ games[0].status = "AwaitingReveal"
    /\ balance = 2 * ENTRY_FEE

\* the operations that take a game id
GameOperations ==
    {"joinGame", "rollDice", "claimReward", "claimDrawRefund",
     "getGame", "getGamePot", "getEncryptedRoll"}

\* C23: every operation that takes a game id fails with GameDoesNotExist when
\* the id was never allocated (id >= nextGameId): no game is created, no record
\* and no other storage changes, and the payment is not kept.
C23_UnknownGameRejected ==
    [][(lastCall'.op \in GameOperations /\ ~gameExists(lastCall'.id))
       => /\ lastCall'.err = "GameDoesNotExist"
          /\ nextGameId' = nextGameId
          /\ games' = games
          /\ balance' = balance
          /\ UNCHANGED storage]_vars

\* a newcomer pays the fee to join a game id that was never handed out, beside
\* a game that holds one deposit
C23_Witness ==
    /\ lastCall.op = "joinGame"
    /\ lastCall.value = ENTRY_FEE
    /\ lastCall.err = "GameDoesNotExist"
    /\ lastCall.id = nextGameId
    /\ nextGameId = 1
    /\ games[0].players[0] # ZeroAddress
    /\ playerIndex(games[0], lastCall.sender) = -1
    /\ games[1] = EmptyGame
    /\ balance = ENTRY_FEE

\* C24: a call of getGamePot or getGame changes no game record, nor the
\* registry, nextGameId, the guard or the balance, in whatever state it is
\* made; it succeeds exactly on an existing game and what it returns is
\* determined by the state it is called in: the pot computed from the record,
\* respectively the fields of the record.
C24_ViewsChangeNothing ==
    [][lastCall'.op \in {"getGamePot", "getGame"} =>
          /\ games' = games
          /\ requestToGame' = requestToGame
          /\ nextGameId' = nextGameId
          /\ claimLock' = claimLock
          /\ balance' = balance
          /\ lastCall'.err = NoError <=> gameExists(lastCall'.id)
          /\ (lastCall'.err = NoError /\ lastCall'.op = "getGamePot")
                => lastCall'.result = getGamePot(lastCall'.id)
          /\ (lastCall'.err = NoError /\ lastCall'.op = "getGame")
                => lastCall'.viewData = GameView(games[lastCall'.id])]_vars

\* the pot of a game that holds both deposits and awaits its reveal is read
C24_Witness ==
    /\ lastCall.op = "getGamePot"
    /\ lastCall.err = NoError
    /\ gameExists(lastCall.id)
    /\ lastCall.result = 2 * ENTRY_FEE
    /\ games[lastCall.id].status = "AwaitingReveal"
    /\ balance = 2 * ENTRY_FEE
    /\ ~claimLock

\* C26 as stated: slot 1 is filled only after slot 0, the two filled slots hold
\* distinct identities, a filled slot never changes, the status is
\* WaitingForPlayers exactly when slot 1 is empty, and a joinGame paying
\* ENTRY_FEE by an identity already in a slot fails with AlreadyJoined and
\* keeps no payment.
C26_RejoinAlwaysAlreadyJoined ==
    [][\A g \in GameIds :
          /\ games[g].players[1] # ZeroAddress => games[g].players[0] # ZeroAddress
          /\ games[g].players[0] # ZeroAddress => games[g].players[0] # games[g].players[1]
          /\ games[g].status = "WaitingForPlayers" <=> games[g].players[1] = ZeroAddress
          /\ \A i \in Slots : games[g].players[i] # ZeroAddress
                                => games'[g].players[i] = games[g].players[i]
          /\ (/\ gameExists(g)
              /\ lastCall'.op = "joinGame"
              /\ lastCall'.id = g
              /\ lastCall'.value = ENTRY_FEE
              /\ playerIndex(games[g], lastCall'.sender) # -1)
             => /\ lastCall'.err = "AlreadyJoined"
                /\ balance' = balance]_vars

\* C26 as amended: the same slot discipline; a joinGame by an identity already
\* in a slot always fails, changes nothing and keeps no payment, with
\* IncorrectEntryFee when the payment is not ENTRY_FEE, else AlreadyJoined
\* while the game is WaitingForPlayers, else GameNotReady (both slots filled).
C26_SlotDiscipline ==
    [][\A g \in GameIds :
          /\ games[g].players[1] # ZeroAddress => games[g].players[0] # ZeroAddress
          /\ games[g].players[0] # ZeroAddress => games[g].players[0] # games[g].players[1]
          /\ games[g].status = "WaitingForPlayers" <=> games[g].players[1] = ZeroAddress
          /\ \A i \in Slots : games[g].players[i] # ZeroAddress
                                => games'[g].players[i] = games[g].players[i]
          /\ (/\ gameExists(g)
              /\ lastCall'.op = "joinGame"
              /\ lastCall'.id = g
              /\ playerIndex(games[g], lastCall'.sender) # -1)
             => /\ lastCall'.err = IF lastCall'.value # ENTRY_FEE THEN "IncorrectEntryFee"
                                   ELSE IF games[g].status = "WaitingForPlayers"
                                   THEN "AlreadyJoined"
                                   ELSE "GameNotReady"
                /\ balance' = balance
                /\ UNCHANGED storage]_vars

\* the first player pays the fee to join the same game again while its second
\* slot is free
C26_Witness ==
    /\ lastCall.op = "joinGame"
    /\ lastCall.value = ENTRY_FEE
    /\ lastCall.err = "AlreadyJoined"
    /\ gameExists(lastCall.id)
    /\ games[lastCall.id].players[0] = lastCall.sender
    /\ games[lastCall.id].players[1] = ZeroAddress
    /\ games[lastCall.id].status = "WaitingForPlayers"
    /\ balance = ENTRY_FEE

\* C27: roll flags.  hasRolled[i] is set once, by a successful rollDice of the
\* player in slot i, and never cleared; the slot's encrypted roll is written in
\* that step and never again; hasRolled[i] implies that slot i is filled and
\* the status is at least WaitingForRolls; the status is AwaitingReveal or
\* Completed exactly when both flags are true.
C27_RollFlags ==
    [][\A g \in GameIds :
          /\ games[g].status \in {"AwaitingReveal", "Completed"}
                <=> (games[g].hasRolled[0] /\ games[g].hasRolled[1])
          /\ \A i \in Slots :
                /\ games[g].hasRolled[i] <=> games[g].encryptedRolls[i] # 0
                /\ games[g].hasRolled[i]
                      => /\ games[g].players[i] # ZeroAddress
                         /\ StatusRank(games[g].status) >= 1
                         /\ games'[g].hasRolled[i]
                         /\ games'[g].encryptedRolls[i] = games[g].encryptedRolls[i]
                /\ (~games[g].hasRolled[i] /\ games'[g].hasRolled[i])
                      => /\ lastCall'.op = "rollDice"
                         /\ lastCall'.err = NoError
                         /\ lastCall'.id = g
                         /\ lastCall'.sender = games[g].players[i]
                         /\ games[g].status = "WaitingForRolls"
                         /\ games'[g].encryptedRolls[i] \in 1..6
                         /\ games'[g].status = IF games[g].hasRolled[1 - i]
                                                THEN "AwaitingReveal"
                                                ELSE "WaitingForRolls"]_vars

\* the second roll of a game has just been made, the two rolls differing
C27_Witness ==
    /\ lastCall.op = "rollDice"
    /\ lastCall.err = NoError
    /\ gameExists(lastCall.id)
    /\ games[lastCall.id].hasRolled[0]
    /\ games[lastCall.id].hasRolled[1]
    /\ games[lastCall.id].encryptedRolls[0] # games[lastCall.id].encryptedRolls[1]
    /\ games[lastCall.id].status = "AwaitingReveal"

\* C28: in every state of every game, decryptionPending is true exactly when
\* the status is AwaitingReveal.
C28_PendingIffAwaitingReveal ==
    \A g \in GameIds :
        games[g].decryptionPending <=> games[g].status = "AwaitingReveal"

\* one game awaits its reveal, another has one roll made and no reveal pending
C28_Witness ==
    /\ nextGameId = 2
    /\ games[0].status = "AwaitingReveal"
    /\ games[0].decryptionPending
    /\ games[1].status = "WaitingForRolls"
    /\ games[1].hasRolled[0] # games[1].hasRolled[1]
    /\ ~games[1].decryptionPending

\* C29: at most one reveal is initiated per game.  No call fails with
\* RevealInProgress; decryptionPending is raised only by the rollDice that
\* takes the game from WaitingForRolls to AwaitingReveal, a phase the game
\* never returns to; and the request id of a game does not change while its
\* reveal is pending.
C29_OneRevealPerGame ==
    [][/\ lastCall'.err # "RevealInProgress"
       /\ \A g \in GameIds :
             /\ StatusRank(games'[g].status) >= StatusRank(games[g].status)
             /\ (~games[g].decryptionPending /\ games'[g].decryptionPending)
                   => /\ lastCall'.op = "rollDice"
                      /\ lastCall'.id = g
                      /\ games[g].status = "WaitingForRolls"
                      /\ games'[g].status = "AwaitingReveal"
             /\ games[g].decryptionPending
                   => /\ games[g].status # "WaitingForRolls"
                      /\ games'[g].pendingRequestId = games[g].pendingRequestId
                      /\ (lastCall'.op = "rollDice" /\ lastCall'.id = g)
                            => lastCall'.err = "GameNotReady"]_vars

\* a participant tries to roll again while the reveal of the game is pending
C29_Witness ==
    /\ lastCall.op = "rollDice"
    /\ lastCall.err = "GameNotReady"
    /\ gameExists(lastCall.id)
    /\ playerIndex(games[lastCall.id], lastCall.sender) # -1
    /\ games[lastCall.id].decryptionPending
    /\ games[lastCall.id].hasRolled[0]
    /\ games[lastCall.id].hasRolled[1]

\* C30: claimReward reports the first failing precondition in the order
\* NotCompleted, GameDrawn, NotWinner, AlreadyClaimed.  Before the reveal of
\* the game is delivered it fails with GameNotCompleted; once it is delivered,
\* equal rolls give GameDrawn, else a caller who does not hold the higher roll
\* gets NotWinner whether or not the reward was claimed, else a claimed reward
\* gives RewardAlreadyClaimed.
C30_ClaimRewardErrorOrder ==
    [][\A g \in GameIds :
          (gameExists(g) /\ lastCall'.op = "claimReward" /\ lastCall'.id = g) =>
             IF games[g].status # "Completed" /\ g \notin revealDelivered
             THEN lastCall'.err = "GameNotCompleted"
             ELSE IF HigherRoller(g) = ZeroAddress
             THEN lastCall'.err = "GameDrawn"
             ELSE IF lastCall'.sender # HigherRoller(g)
             THEN lastCall'.err = "NotWinner"
             ELSE IF games[g].rewardClaimed
             THEN lastCall'.err = "RewardAlreadyClaimed"
             ELSE lastCall'.err \in {NoError, "Transfer failed"}]_vars

\* C31: once the reveal of a game has been delivered, a claimDrawRefund on it
\* fails with NotDrawn when one roll is higher, and with NotParticipant when
\* the rolls are equal and the caller is in neither slot; in both cases no flag
\* is set and no funds move.
C31_RefundOnWonGameIsNotDrawn ==
    [][\A g \in GameIds :
          (/\ gameExists(g)
           /\ g \in revealDelivered
           /\ lastCall'.op = "claimDrawRefund"
           /\ lastCall'.id = g)
          => /\ HigherRoller(g) # ZeroAddress => lastCall'.err = "NotDrawn"
             /\ (HigherRoller(g) = ZeroAddress
                    /\ playerIndex(games[g], lastCall'.sender) = -1)
                   => lastCall'.err = "NotParticipant"
             /\ lastCall'.err # NoError
                   => /\ games'[g] = games[g]
                      /\ balance' = balance]_vars

\* C32: rollDice succeeds only in WaitingForRolls for a caller who occupies a
\* slot and has not rolled.  In every other phase it fails with GameNotReady,
\* also for the sole player of a game that waits for an opponent; in
\* WaitingForRolls a caller in neither slot fails with NotParticipant; a failed
\* rollDice sets no hasRolled flag and stores no roll.
C32_RollPreconditions ==
    [][\A g \in GameIds :
          (gameExists(g) /\ lastCall'.op = "rollDice" /\ lastCall'.id = g) =>
             LET index == playerIndex(games[g], lastCall'.sender)
             IN  /\ games[g].status # "WaitingForRolls" => lastCall'.err = "GameNotReady"
                 /\ (games[g].status = "WaitingForRolls" /\ index = -1)
                       => lastCall'.err = "NotParticipant"
                 /\ lastCall'.err = NoError
                       => /\ games[g].status = "WaitingForRolls"
                          /\ index # -1
                          /\ ~games[g].hasRolled[index]
                          /\ games'[g].hasRolled[index]
                 /\ lastCall'.err # NoError
                       => /\ games'[g].hasRolled = games[g].hasRolled
                          /\ games'[g].encryptedRolls = games[g].encryptedRolls]_vars

\* an identity in neither slot tries to roll in a game where one player has
\* rolled
C32_Witness ==
    /\ lastCall.op = "rollDice"
    /\ lastCall.err = "NotParticipant"
    /\ lastCall.sender = ThirdIdentity
    /\ gameExists(lastCall.id)
    /\ games[lastCall.id].status = "WaitingForRolls"
    /\ games[lastCall.id].hasRolled[0] # games[lastCall.id].hasRolled[1]
    /\ ThirdIdentity \notin {games[lastCall.id].players[0], games[lastCall.id].players[1]}

\* C33: game independence.  A joinGame, rollDice, claimReward or
\* claimDrawRefund addressed to one game, and a callback whose request id the
\* registry resolves to one game, leave every field of every other game
\* unchanged; createGame leaves every existing game unchanged.
C33_GameIndependence ==
    [][\A g \in GameIds :
          /\ (/\ lastCall'.op \in {"joinGame", "rollDice", "claimReward", "claimDrawRefund"}
              /\ lastCall'.id # g)
             => games'[g] = games[g]
          /\ (lastCall'.op = "createGame" /\ gameExists(g)) => games'[g] = games[g]
          /\ (lastCall'.op = "onDiceDecrypted" /\ requestToGame[lastCall'.id] # g + 1)
             => games'[g] = games[g]]_vars

\* the first roll of the second game is made while the first game, with both
\* rolls made, awaits its reveal
C33_Witness ==
    /\ lastCall.op = "rollDice"
    /\ lastCall.err = NoError
    /\ lastCall.id = 1
    /\ games[1].hasRolled[0] # games[1].hasRolled[1]
    /\ games[0].status = "AwaitingReveal"
    /\ games[0].encryptedRolls[0] # 0
    /\ games[0].encryptedRolls[1] # 0
    /\ balance = 4 * ENTRY_FEE

\* C34: callbacks out of order.  While several games await their reveal, the
\* first delivery for one of them, whenever it comes, completes that game with
\* the values of its own rolls (the winner is the holder of the higher one) and
\* leaves the other games as they are.
C34_OutOfOrderDelivery ==
    [][\A g \in GameIds :
          (/\ gameExists(g)
           /\ games[g].status = "AwaitingReveal"
           /\ \E h \in GameIds \ {g} : games[h].status = "AwaitingReveal"
           /\ lastCall'.op = "onDiceDecrypted"
           /\ g \notin revealDelivered
           /\ g \in revealDelivered')
          => /\ games'[g].status = "Completed"
             /\ games'[g].revealedRolls = games[g].encryptedRolls
             /\ games'[g].winner = HigherRoller(g)
             /\ \A h \in GameIds \ {g} : games'[h] = games[h]]_vars

\* C35: the creator has no privilege.  createGame fills no slot and deposits
\* nothing, and the outcome of every later operation on the game is fixed by
\* the payment, the phase, the slots and the roll flags, whoever created the
\* game: the creator pays ENTRY_FEE to join like anyone else, and no operation
\* changes the creator.
C35_CreatorHasNoPrivilege ==
    [][/\ lastCall'.op = "createGame"
          => /\ balance' = balance
             /\ games'[lastCall'.id].players = [i \in Slots |-> ZeroAddress]
       /\ \A g \in GameIds :
             LET game == games[g]
                 index == playerIndex(game, lastCall'.sender)
             IN  /\ gameExists(g) => games'[g].creator = game.creator
                 /\ (gameExists(g) /\ lastCall'.op = "joinGame" /\ lastCall'.id = g)
                    => /\ lastCall'.err =
                             IF lastCall'.value # ENTRY_FEE THEN "IncorrectEntryFee"
                             ELSE IF game.status # "WaitingForPlayers" THEN "GameNotReady"
                             ELSE IF index # -1 THEN "AlreadyJoined"
                             ELSE NoError
                       /\ balance' = IF lastCall'.err = NoError
                                     THEN balance + ENTRY_FEE ELSE balance
                 /\ (gameExists(g) /\ lastCall'.op = "rollDice" /\ lastCall'.id = g)
                    => lastCall'.err =
                          IF game.status # "WaitingForRolls" THEN "GameNotReady"
                          ELSE IF index = -1 THEN "NotParticipant"
                          ELSE IF game.hasRolled[index] THEN "AlreadyRolled"
                          ELSE NoError
                 /\ (/\ gameExists(g)
                     /\ lastCall'.op \in {"claimReward", "claimDrawRefund"}
                     /\ lastCall'.id = g
                     /\ game.status # "Completed")
                    => /\ lastCall'.err = "GameNotCompleted"
                       /\ lastCall'.paid = 0]_vars

\* the creator of a game has just taken its second slot, paying the fee as the
\* first player did
C35_Witness ==
    /\ lastCall.op = "joinGame"
    /\ lastCall.err = NoError
    /\ lastCall.value = ENTRY_FEE
    /\ gameExists(lastCall.id)
    /\ lastCall.sender = games[lastCall.id].creator
    /\ games[lastCall.id].players[1] = lastCall.sender
    /\ games[lastCall.id].players[0] # games[lastCall.id].creator
    /\ balance = 2 * ENTRY_FEE

\* C36: the result fields follow the phase.  While a game is not Completed its
\* revealed rolls are 0, its winner is unset and none of its claim flags is
\* set; once Completed, the winner is players[0] iff the first revealed roll is
\* higher, players[1] iff the second is, unset iff they are equal, and winner
\* and revealed rolls change no more.
C36_ResultFieldsFollowPhase ==
    [][\A g \in GameIds :
          LET game == games[g]
          IN  IF game.status # "Completed"
              THEN /\ game.revealedRolls = [i \in Slots |-> 0]
                   /\ game.winner = ZeroAddress
                   /\ ~game.rewardClaimed
                   /\ game.drawRefundClaimed = [i \in Slots |-> FALSE]
              ELSE /\ game.winner \in {ZeroAddress, game.players[0], game.players[1]}
                   /\ game.winner = game.players[0]
                         <=> game.revealedRolls[0] > game.revealedRolls[1]
                   /\ game.winner = game.players[1]
                         <=> game.revealedRolls[1] > game.revealedRolls[0]
                   /\ game.winner = ZeroAddress
                         <=> game.revealedRolls[0] = game.revealedRolls[1]
                   /\ games'[g].winner = game.winner
                   /\ games'[g].revealedRolls = game.revealedRolls]_vars

\* a callback carrying two different values has been turned away: the game
\* still awaits its reveal, no roll is revealed and no winner is set
C36_Witness ==
    /\ lastCall.op = "onDiceDecrypted"
    /\ lastCall.cleartexts = <<1, 0>>
    /\ lastCall.err = "UnknownDecryptionRequest"
    /\ games[0].status = "AwaitingReveal"
    /\ games[0].encryptedRolls[0] > games[0].encryptedRolls[1]
    /\ games[0].revealedRolls = [i \in Slots |-> 0]
    /\ games[0].winner = ZeroAddress

\* C37: the balance changes only by paying operations.  A successful joinGame
\* raises it by ENTRY_FEE, a successful claimReward lowers it by REWARD_AMOUNT,
\* a successful claimDrawRefund lowers it by ENTRY_FEE; every other call, every
\* failed call and every plain payment, which is rejected, leave it unchanged.
C37_BalanceChangesOnlyByPayments ==
    [][LET ok(op) == lastCall'.op = op /\ lastCall'.err = NoError
       IN  /\ balance' = balance
                         + (IF ok("joinGame") THEN ENTRY_FEE ELSE 0)
                         - (IF ok("claimReward") THEN REWARD_AMOUNT ELSE 0)
                         - (IF ok("claimDrawRefund") THEN ENTRY_FEE ELSE 0)
           /\ lastCall'.paid = (IF ok("claimReward") THEN REWARD_AMOUNT ELSE 0)
                               + (IF ok("claimDrawRefund") THEN ENTRY_FEE ELSE 0)
           /\ ok("joinGame") => lastCall'.value = ENTRY_FEE
           /\ lastCall'.op = "receive" => lastCall'.err # NoError]_vars

\* a plain payment of the fee is turned away while two deposits are held
C37_Witness ==
    /\ lastCall.op = "receive"
    /\ lastCall.value = ENTRY_FEE
    /\ lastCall.err = "Direct payments not accepted"
    /\ balance = 2 * ENTRY_FEE
    /\ getGamePot(0) = 2 * ENTRY_FEE

\* mapGame: the GameDetails the page builds from what getGame and getGamePot
\* return for a game
mapGame(id, raw, pot) ==
    [id |-> id,
     status |-> raw.status,
     creator |-> raw.creator,
     playerOne |-> raw.playerOne,
     playerTwo |-> raw.playerTwo,
     playerOneRolled |-> raw.playerOneRolled,
     playerTwoRolled |-> raw.playerTwoRolled,
     playerOneRoll |-> raw.playerOneRevealed,
     playerTwoRoll |-> raw.playerTwoRevealed,
     winner |-> raw.winner,
     rewardClaimed |-> raw.rewardAlreadyClaimed,
     playerOneRefunded |-> raw.playerOneDrawRefunded,
     playerTwoRefunded |-> raw.playerTwoDrawRefunded,
     pot |-> pot,
     revealPending |-> raw.revealPending]

\* GameCard: the position of the connected account among the players, -1 if none
cardPlayerIndex(game, currentAccount) ==
    IF game.playerOne = currentAccount THEN 0
    ELSE IF game.playerTwo = currentAccount THEN 1
    ELSE -1

canJoin(game, currentAccount) ==
    /\ game.status = "WaitingForPlayers"
    /\ cardPlayerIndex(game, currentAccount) = -1
    /\ (game.playerOne = ZeroAddress \/ game.playerTwo = ZeroAddress)

canRoll(game, currentAccount) ==
    LET index == cardPlayerIndex(game, currentAccount)
    IN  /\ game.status = "WaitingForRolls"
        /\ index >= 0
        /\ \/ (index = 0 /\ ~game.playerOneRolled)
           \/ (index = 1 /\ ~game.playerTwoRolled)

canClaimReward(game, currentAccount) ==
    /\ game.status = "Completed"
    /\ game.winner # ZeroAddress
    /\ game.winner = currentAccount
    /\ ~game.rewardClaimed

canClaimRefund(game, currentAccount) ==
    LET index == cardPlayerIndex(game, currentAccount)
    IN  /\ game.status = "Completed"
        /\ game.winner = ZeroAddress
        /\ index >= 0
        /\ \/ (index = 0 /\ ~game.playerOneRefunded)
           \/ (index = 1 /\ ~game.playerTwoRefunded)

\* the snapshot of game g taken in the current state
GameDetails(g) == mapGame(g, GameView(games[g]), getGamePot(g))

\* C38: the guards of GameCard agree with the contract.  For the snapshot of a
\* game taken in the state a call is made in, and the caller as the connected
\* account, canJoin, canRoll, canClaimReward and canClaimRefund hold exactly
\* when joinGame with ENTRY_FEE, rollDice, claimReward and claimDrawRefund get
\* past every check of the contract; and no account is offered two actions, or
\* an action of another phase.
C38_GuardsAgreeWithContract ==
    [][\A g \in GameIds :
          gameExists(g) =>
             LET card == GameDetails(g)
                 account == lastCall'.sender
                 passed == lastCall'.err \in {NoError, "Transfer failed"}
             IN  /\ (lastCall'.id = g /\ lastCall'.op = "joinGame"
                        /\ lastCall'.value = ENTRY_FEE)
                       => (canJoin(card, account) <=> lastCall'.err = NoError)
                 /\ (lastCall'.id = g /\ lastCall'.op = "rollDice")
                       => (canRoll(card, account) <=> lastCall'.err = NoError)
                 /\ (lastCall'.id = g /\ lastCall'.op = "claimReward")
                       => (canClaimReward(card, account) <=> passed)
                 /\ (lastCall'.id = g /\ lastCall'.op = "claimDrawRefund")
                       => (canClaimRefund(card, account) <=> passed)
                 /\ \A a \in Callers :
                       /\ canJoin(card, a) => games[g].status = "WaitingForPlayers"
                       /\ canRoll(card, a) => games[g].status = "WaitingForRolls"
                       /\ (canClaimReward(card, a) \/ canClaimRefund(card, a))
                             => games[g].status = "Completed"
                       /\ ~(canJoin(card, a) /\ canRoll(card, a))
                       /\ ~(canClaimReward(card, a) /\ canClaimRefund(card, a))]_vars

\* the first roll of a game has just been made: the page offers a roll to the
\* opponent only, and nothing to the one who rolled or to an outsider
C38_Witness ==
    /\ lastCall.op = "rollDice"
    /\ lastCall.err = NoError
    /\ gameExists(lastCall.id)
    /\ games[lastCall.id].status = "WaitingForRolls"
    /\ ~canRoll(GameDetails(lastCall.id), lastCall.sender)
    /\ \E a \in Callers : canRoll(GameDetails(lastCall.id), a)
    /\ ~canRoll(GameDetails(lastCall.id), ThirdIdentity)
    /\ ~canJoin(GameDetails(lastCall.id), ThirdIdentity)
====
